---------------------------- MODULE Spec2Model ----------------------------
(***************************************************************************)
(* Model of the aliyun-tts-proxy service.                                  *)
(*                                                                         *)
(* Two builds of the service live in the repository:                       *)
(*   "dash" : src/unnamed/part_000, the DashScope CosyVoice client         *)
(*   "nls"  : src/server.js, the NLS gateway client with a token cache     *)
(*                                                                         *)
(* A session is one invocation of synthesizeSpeech: one WebSocket, one     *)
(* deadline timer, one promise.  The ws library delivers the events open,  *)
(* message, error and close, one at a time (Node's event loop), and the    *)
(* model lets them arrive in every order the library's readyState allows.  *)
(***************************************************************************)
EXTENDS Integers, Sequences, FiniteSets, TLC

VARIABLES
  session,      \* session id -> the state of one synthesizeSpeech invocation
  crashed,      \* TRUE once an exception escaped an event listener (process exit)
  tokenCache,   \* server.js: let tokenCache = { id, expireTime }
  now,          \* Date.now(), in milliseconds
  call,         \* caller id -> the state of one getNlsToken invocation
  net,          \* outbound I/O: token refresh requests, synthesizeSpeech calls,
                \* storage uploads and their outcome, the token last issued
  req           \* the POST /api/tts request being handled

vars == <<session, crashed, tokenCache, now, call, net, req>>

---------------------------------------------------------------------------
\* Bounds of the model

\* inbound frames delivered to one session's message handler
MaxFrames == 4
\* error events emitted on one session's socket
MaxErrors == 1
\* 30 s steps of the clock
MaxTicks == 3
\* calls of getNlsToken one caller makes, one after the other
MaxCalls == 3
\* inbound frames delivered to each of two concurrent sessions
MaxPairFrames == 2

---------------------------------------------------------------------------
\* JavaScript values

\* the value undefined, for fields and arguments that hold strings
Undefined == "undefined"

\* truthiness of a string-or-undefined value
Truthy(x) == x # Undefined /\ x # ""

\* a || b
Or(a, b) == IF Truthy(a) THEN a ELSE b

\* the object literal {}
EmptyObject == [k \in {} |-> k]

\* a string, known by its length; JsUndefined is a missing string
JsString(n) == [type |-> "string", length |-> n]
JsUndefined == [type |-> "undefined", length |-> 0]

\* !text
Not(text) == text.type = "undefined" \/ text.length = 0

\* Buffer.concat(list): the bytes of the buffers of list, in list order
RECURSIVE BufferConcat(_)
BufferConcat(list) ==
  IF list = <<>> THEN <<>> ELSE Head(list) \o BufferConcat(Tail(list))

\* A frame's payload is [bytes, text]: its bytes for Buffer.from(data), and for
\* data.toString() the text they spell, known by whether it is JSON and by
\* the value it is the JSON of.
\* Buffer.from(data)
BufferFrom(data) == data.bytes

\* JSON.parse(data.toString()): throws on text that is not JSON
JsonParse(data) ==
  LET text == data.text
  IN
  IF text.valid THEN [threw |-> FALSE, value |-> text.value]
  ELSE [threw |-> TRUE, value |-> [type |-> "null", header |-> EmptyObject]]

\* msg.header?.field: a TypeError when msg is null, undefined when the header or
\* the field is missing
HeaderField(msg, field) ==
  IF msg.type = "null" THEN [threw |-> TRUE, value |-> Undefined]
  ELSE IF field \in DOMAIN msg.header
       THEN [threw |-> FALSE, value |-> msg.header[field]]
       ELSE [threw |-> FALSE, value |-> Undefined]

---------------------------------------------------------------------------
\* Errors passed to reject

TimeoutError == [kind |-> "timeout", code |-> 0, detail |-> ""]
NoKeyError == [kind |-> "no-apikey", code |-> 0, detail |-> ""]
NoError == [kind |-> "none", code |-> 0, detail |-> ""]
GenericFailure == "synthesis failed"
TaskError(m) == [kind |-> "task", code |-> 0, detail |-> m]
\* part_000 wraps the transport error, server.js passes it on as it is
WrappedWsError(e) == [kind |-> "ws-error", code |-> 0, detail |-> e]
RawWsError(e) == [kind |-> "raw-error", code |-> 0, detail |-> e]
CloseError(code, reason) ==
  [kind |-> "close", code |-> code, detail |-> Or(reason, "unknown")]

---------------------------------------------------------------------------
\* The promise of one invocation, and the calls of its resolve and reject

PendingPromise == [state |-> "pending", value |-> <<>>, error |-> NoError]

\* resolve(v): counted; settles the promise only if it is still pending
resolve(r, v) ==
  [r EXCEPT !.settleCalls = @ + 1,
            !.promise = IF @.state = "pending"
                        THEN [state |-> "fulfilled", value |-> v, error |-> NoError]
                        ELSE @]

\* reject(e): counted; settles the promise only if it is still pending
reject(r, e) ==
  [r EXCEPT !.settleCalls = @ + 1,
            !.promise = IF @.state = "pending"
                        THEN [state |-> "rejected", value |-> <<>>, error |-> e]
                        ELSE @]

---------------------------------------------------------------------------
\* The ws library, as the handlers use it

\* clearTimeout(timeout): disarms an armed timer, nothing else
clearTimeout(r) ==
  [r EXCEPT !.timer = IF @ = "armed" THEN "cleared" ELSE @]

\* ws.close(): starts the closing handshake unless the socket is closed
wsClose(r) ==
  [r EXCEPT !.readyState = IF @ = "CLOSED" THEN @ ELSE "CLOSING",
            !.closeCalled = TRUE]

\* ws.terminate(): destroys the socket unless it is closed
wsTerminate(r) ==
  [r EXCEPT !.readyState = IF @ = "CLOSED" THEN @ ELSE "CLOSING",
            !.terminated = TRUE]

\* ws.send(JSON.stringify(m)): sent records every message handed to ws.send
wsSend(r, m) == [r EXCEPT !.sent = Append(@, m)]

---------------------------------------------------------------------------
\* Outbound control messages

\* a slip: run-task without the input placeholder
RunTaskMessageNoInput(r) ==
  [header |-> [action |-> "run-task", task_id |-> r.taskId, streaming |-> "duplex"],
   payload |-> [task_group |-> "audio",
                task |-> "tts",
                function |-> "SpeechSynthesizer",
                model |-> Or(r.model, "cosyvoice-v3-flash"),
                parameters |-> [text_type |-> "PlainText",
                                voice |-> Or(r.voice, "longanyang"),
                                format |-> Or(r.format, "mp3"),
                                sample_rate |-> 22050,
                                volume |-> 50,
                                rate |-> 1,
                                pitch |-> 1]]]

\* part_000: run-task
RunTaskMessage(r) ==
  [header |-> [action |-> "run-task", task_id |-> r.taskId, streaming |-> "duplex"],
   payload |-> [task_group |-> "audio",
                task |-> "tts",
                function |-> "SpeechSynthesizer",
                model |-> Or(r.model, "cosyvoice-v3-flash"),
                parameters |-> [text_type |-> "PlainText",
                                voice |-> Or(r.voice, "longanyang"),
                                format |-> Or(r.format, "mp3"),
                                sample_rate |-> 22050,
                                volume |-> 50,
                                rate |-> 1,
                                pitch |-> 1],
                input |-> EmptyObject]]

\* part_000: continue-task, the whole text in one message
ContinueTaskMessage(r) ==
  [header |-> [action |-> "continue-task", task_id |-> r.taskId, streaming |-> "duplex"],
   payload |-> [input |-> [text |-> r.text]]]

\* part_000: finish-task
FinishTaskMessage(r) ==
  [header |-> [action |-> "finish-task", task_id |-> r.taskId, streaming |-> "duplex"],
   payload |-> [input |-> EmptyObject]]

\* server.js: the header every message carries; message_id is a fresh
\* generateId() value that no handler reads back
NlsHeader(r, name) ==
  [message_id |-> "generated", task_id |-> r.taskId,
   namespace |-> "FlowingSpeechSynthesizer", name |-> name, appkey |-> "appkey"]

\* server.js: StartSynthesis
StartSynthesisMessage(r) ==
  [header |-> NlsHeader(r, "StartSynthesis"),
   payload |-> [voice |-> Or(r.voice, "longxiaochun"),
                format |-> Or(r.format, "mp3"),
                sample_rate |-> 16000,
                volume |-> 50,
                speech_rate |-> 0,
                pitch_rate |-> 0]]

\* server.js: RunSynthesis, the whole text in one message
RunSynthesisMessage(r) ==
  [header |-> NlsHeader(r, "RunSynthesis"), payload |-> [text |-> r.text]]

\* server.js: StopSynthesis, a header and no payload
StopSynthesisMessage(r) ==
  [header |-> NlsHeader(r, "StopSynthesis")]

---------------------------------------------------------------------------
\* synthesizeSpeech: the state of a session when the call returns

\* the fields common to both builds, before the socket is constructed
BlankSession(profile, id, text, voice, model, format) ==
  [profile |-> profile, taskId |-> id,
   text |-> text, voice |-> voice, model |-> model, format |-> format,
   readyState |-> "NONE", opened |-> FALSE, timer |-> "none", isSettled |-> FALSE,
   audioChunks |-> <<>>, sent |-> <<>>,
   closeCalled |-> FALSE, terminated |-> FALSE,
   settleCalls |-> 0, promise |-> PendingPromise,
   rxBin |-> <<>>, binAtFinish |-> <<>>, sawFinish |-> FALSE, failedWith |-> "no-frame",
   nFrames |-> 0, nErrors |-> 0, sawMalformed |-> FALSE, nStarted |-> 0]

\* part_000: rejects at once when no api key is to be had, otherwise opens the
\* socket and arms the 60 s timer
DashSynthesizeSpeech(id, text, voice, model, format, userApiKey, envApiKey) ==
  LET apiKey == Or(userApiKey, envApiKey)
      r == BlankSession("dash", id, text, voice, model, format)
  IN IF ~Truthy(apiKey) THEN reject(r, NoKeyError)
     ELSE [r EXCEPT !.readyState = "CONNECTING", !.timer = "armed"]

\* server.js: opens the socket, the token in its URL, and arms the 30 s timer
NlsSynthesizeSpeech(id, text, voice, format, token) ==
  [BlankSession("nls", id, text, voice, Undefined, format)
     EXCEPT !.readyState = "CONNECTING", !.timer = "armed"]

---------------------------------------------------------------------------
\* part_000: the event handlers of the DashScope session

\* a slip: the timeout rejects and leaves the socket alone
DashOnTimeoutKeepsSocket(r) ==
  IF ~r.isSettled
  THEN reject([r EXCEPT !.isSettled = TRUE], TimeoutError)
  ELSE r

\* setTimeout callback
DashOnTimeout(r) ==
  IF ~r.isSettled
  THEN reject(wsTerminate([r EXCEPT !.isSettled = TRUE]), TimeoutError)
  ELSE r

\* ws.on('open')
DashOnOpen(r) == wsSend(r, RunTaskMessage(r))

\* the task-finished branch
DashOnFinished(r) ==
  LET c == wsClose(clearTimeout(r))
  IN IF ~c.isSettled
     THEN resolve([c EXCEPT !.isSettled = TRUE], BufferConcat(c.audioChunks))
     ELSE c

\* a slip: the failed event hands back the audio received so far
DashOnFailedReturnsPartial(r, msg) ==
  LET c == wsClose(clearTimeout(r))
  IN IF ~c.isSettled
     THEN resolve([c EXCEPT !.isSettled = TRUE], BufferConcat(c.audioChunks))
     ELSE c

\* the task-failed branch
DashOnFailed(r, msg) ==
  LET errMsg == Or(HeaderField(msg, "error_message").value, GenericFailure)
      c == wsClose(clearTimeout(r))
  IN IF ~c.isSettled
     THEN reject([c EXCEPT !.isSettled = TRUE], TaskError(errMsg))
     ELSE c

\* a slip: the new buffer put in front of the ones already held
DashOnBinaryPrepend(r, data) ==
  [r EXCEPT !.audioChunks = <<BufferFrom(data)>> \o @]

\* the binary branch of ws.on('message')
DashOnBinary(r, data) == [r EXCEPT !.audioChunks = Append(@, BufferFrom(data))]

\* a slip: an event that is neither started nor failed ends the task
DashOnTextElseFinished(r, data) ==
  LET parsed == JsonParse(data)
      event == HeaderField(parsed.value, "event")
  IN IF parsed.threw \/ event.threw THEN r
     ELSE IF event.value = "task-started"
          THEN wsSend(wsSend(r, ContinueTaskMessage(r)), FinishTaskMessage(r))
     ELSE IF event.value = "task-failed" THEN DashOnFailed(r, parsed.value)
     ELSE DashOnFinished(r)

\* the text branch of ws.on('message'): everything inside try/catch, so a
\* throw leaves the session as it was
DashOnText(r, data) ==
  LET parsed == JsonParse(data)
      event == HeaderField(parsed.value, "event")
  IN IF parsed.threw \/ event.threw THEN r
     ELSE IF event.value = "task-started"
          THEN wsSend(wsSend(r, ContinueTaskMessage(r)), FinishTaskMessage(r))
     ELSE IF event.value = "task-finished" THEN DashOnFinished(r)
     ELSE IF event.value = "task-failed" THEN DashOnFailed(r, parsed.value)
     ELSE r

\* ws.on('message'); threw tells whether an exception left the listener
DashOnMessage(r, data, isBinary) ==
  [s |-> IF isBinary THEN DashOnBinary(r, data) ELSE DashOnText(r, data),
   threw |-> FALSE]

\* a slip: the error handler forgets the timer
DashOnErrorKeepsTimer(r, err) ==
  IF ~r.isSettled
  THEN reject([r EXCEPT !.isSettled = TRUE], WrappedWsError(err))
  ELSE r

\* ws.on('error')
DashOnError(r, err) ==
  LET c == clearTimeout(r)
  IN IF ~c.isSettled
     THEN reject([c EXCEPT !.isSettled = TRUE], WrappedWsError(err))
     ELSE c

\* ws.on('close')
DashOnClose(r, code, reason) ==
  LET c == clearTimeout(r)
  IN IF ~c.isSettled
     THEN reject([c EXCEPT !.isSettled = TRUE], CloseError(code, reason))
     ELSE c

---------------------------------------------------------------------------
\* server.js: the event handlers of the NLS session

\* setTimeout callback
NlsOnTimeout(r) == reject(wsTerminate(r), TimeoutError)

\* ws.on('open')
NlsOnOpen(r) == wsSend(r, StartSynthesisMessage(r))

\* the SynthesisCompleted branch
NlsOnCompleted(r) ==
  LET c == wsClose(clearTimeout(r))
  IN resolve(c, BufferConcat(c.audioChunks))

\* the TaskFailed branch
NlsOnFailed(r, msg) ==
  reject(wsClose(clearTimeout(r)),
         TaskError(Or(HeaderField(msg, "status_message").value, GenericFailure)))

\* the binary branch of ws.on('message')
NlsOnBinary(r, data) == [r EXCEPT !.audioChunks = Append(@, BufferFrom(data))]

\* the text branch of ws.on('message'): no try/catch, so a throw of JSON.parse
\* or of msg.header leaves the listener
NlsOnText(r, data) ==
  LET parsed == JsonParse(data)
      name == HeaderField(parsed.value, "name")
  IN IF parsed.threw \/ name.threw THEN [s |-> r, threw |-> TRUE]
     ELSE [s |-> IF name.value = "SynthesisStarted"
                 THEN wsSend(wsSend(r, RunSynthesisMessage(r)), StopSynthesisMessage(r))
                 ELSE IF name.value = "SynthesisCompleted" THEN NlsOnCompleted(r)
                 ELSE IF name.value = "TaskFailed" THEN NlsOnFailed(r, parsed.value)
                 ELSE r,
           threw |-> FALSE]

\* ws.on('message'); threw tells whether an exception left the listener
NlsOnMessage(r, data, isBinary) ==
  IF isBinary THEN [s |-> NlsOnBinary(r, data), threw |-> FALSE]
  ELSE NlsOnText(r, data)

\* ws.on('error')
NlsOnError(r, err) == reject(clearTimeout(r), RawWsError(err))

\* server.js registers no 'close' listener
NlsOnClose(r, code, reason) == r

---------------------------------------------------------------------------
\* Dispatch on the build the session belongs to

OnTimeout(r) == IF r.profile = "dash" THEN DashOnTimeout(r) ELSE NlsOnTimeout(r)
OnOpen(r) == IF r.profile = "dash" THEN DashOnOpen(r) ELSE NlsOnOpen(r)
OnMessage(r, data, isBinary) ==
  IF r.profile = "dash" THEN DashOnMessage(r, data, isBinary)
  ELSE NlsOnMessage(r, data, isBinary)
OnError(r, err) ==
  IF r.profile = "dash" THEN DashOnError(r, err) ELSE NlsOnError(r, err)
OnClose(r, code, reason) ==
  IF r.profile = "dash" THEN DashOnClose(r, code, reason)
  ELSE NlsOnClose(r, code, reason)

---------------------------------------------------------------------------
\* What the peer and the ws library can deliver to a session

\* audio buffers carried by binary frames
Chunks == {<<1>>, <<2, 3>>}

\* a text frame whose text is the JSON of an object with this header
\* (an object without a header reads the same as one with an empty header)
TextFrame(header) ==
  [isBinary |-> FALSE,
   data |-> [bytes |-> <<>>,
             text |-> [valid |-> TRUE,
                       value |-> [type |-> "object", header |-> header]]]]

\* a text frame that is not JSON, and the JSON text null
NotJson == [valid |-> FALSE, value |-> [type |-> "null", header |-> EmptyObject]]
GarbageFrame == [isBinary |-> FALSE, data |-> [bytes |-> <<>>, text |-> NotJson]]
NullFrame ==
  [isBinary |-> FALSE,
   data |-> [bytes |-> <<>>,
             text |-> [valid |-> TRUE,
                       value |-> [type |-> "null", header |-> EmptyObject]]]]

\* a binary frame; no handler reads its bytes as text
BinaryFrames ==
  {[isBinary |-> TRUE, data |-> [bytes |-> c, text |-> NotJson]] : c \in Chunks}

\* the discriminator field and the error-message field of each build
EventField(p) == IF p = "dash" THEN "event" ELSE "name"
MessageField(p) == IF p = "dash" THEN "error_message" ELSE "status_message"
StartedName(p) == IF p = "dash" THEN "task-started" ELSE "SynthesisStarted"
FinishedName(p) == IF p = "dash" THEN "task-finished" ELSE "SynthesisCompleted"
FailedName(p) == IF p = "dash" THEN "task-failed" ELSE "TaskFailed"
InfoName(p) == IF p = "dash" THEN "result-generated" ELSE "SentenceSynthesis"

\* a header with the discriminator only, and one with an error message too
EventHeader(p, name) == [k \in {EventField(p)} |-> name]
FailedHeader(p, m) ==
  [k \in {EventField(p), MessageField(p)} |->
     IF k = EventField(p) THEN FailedName(p) ELSE m]

StartedFrames(p) == {TextFrame(EventHeader(p, StartedName(p)))}
FinishedFrames(p) == {TextFrame(EventHeader(p, FinishedName(p)))}
\* failed events: without a message, with an empty one, with a real one
BackendMessages == {"", "quota exceeded"}
FailedFrames(p) ==
  {TextFrame(EventHeader(p, FailedName(p)))}
    \cup {TextFrame(FailedHeader(p, m)) : m \in BackendMessages}
InfoFrames(p) == {TextFrame(EventHeader(p, InfoName(p)))}
\* text frames that are not JSON, or JSON without a recognised event name
MalformedFrames(p) ==
  {GarbageFrame, NullFrame, TextFrame(EmptyObject),
   TextFrame(EventHeader(p, "no-such-event"))}

Frames(p) ==
  BinaryFrames \cup StartedFrames(p) \cup FinishedFrames(p) \cup FailedFrames(p)
    \cup InfoFrames(p) \cup MalformedFrames(p)

\* the message of a failed frame, Undefined when it carries none
BackendMessage(p, f) == HeaderField(f.data.text.value, MessageField(p)).value

\* transport errors, close codes and close reasons
TransportErrors == {"ECONNRESET"}
CloseCodes == {1006}
CloseReasons == {"", "going away"}

---------------------------------------------------------------------------
\* Session events.  Every action is one listener run to completion; none runs
\* once the process has died of an uncaught exception.

Sessions == DOMAIN session

\* 'open': the handshake completed
Open(s) ==
  /\ ~crashed
  /\ session[s].readyState = "CONNECTING"
  /\ session' =
       [session EXCEPT ![s] =
          OnOpen([@ EXCEPT !.readyState = "OPEN", !.opened = TRUE])]
  /\ UNCHANGED <<crashed, tokenCache, now, call, net, req>>

\* a slip: audioChunks declared once for the module, not once per call, so
\* every session sees the buffers of every socket
MessageSharedChunks(s, f) ==
  /\ ~crashed
  /\ session[s].opened
  /\ session[s].readyState \in {"OPEN", "CLOSING"}
  /\ session[s].nFrames < MaxFrames
  /\ f \in Frames(session[s].profile)
  /\ LET r == session[s]
         p == r.profile
         res == OnMessage(r, f.data, f.isBinary)
         firstFinish == f \in FinishedFrames(p) /\ ~r.sawFinish
         firstFailed == /\ f \in FailedFrames(p)
                        /\ r.promise.state = "pending"
                        /\ r.failedWith = "no-frame"
         own == [res.s EXCEPT
                   !.nFrames = @ + 1,
                   !.rxBin = IF f.isBinary THEN Append(@, f.data.bytes) ELSE @,
                   !.sawMalformed = @ \/ f \in MalformedFrames(p),
                   !.sawFinish = @ \/ f \in FinishedFrames(p),
                   !.nStarted = IF f \in StartedFrames(p) THEN @ + 1 ELSE @,
                   !.binAtFinish = IF firstFinish THEN r.rxBin ELSE @,
                   !.failedWith = IF firstFailed THEN BackendMessage(p, f) ELSE @]
     IN /\ session' =
             [t \in Sessions |->
                IF t = s THEN own
                ELSE IF f.isBinary
                     THEN [session[t] EXCEPT !.audioChunks = own.audioChunks]
                     ELSE session[t]]
        /\ crashed' = res.threw
  /\ UNCHANGED <<tokenCache, now, call, net, req>>

\* 'message': once the handshake is done the receiver emits frames while the
\* socket is open, and the ones still buffered after close() or terminate()
\* until 'close' is emitted
Message(s, f) ==
  /\ ~crashed
  /\ session[s].opened
  /\ session[s].readyState \in {"OPEN", "CLOSING"}
  /\ session[s].nFrames < MaxFrames
  /\ f \in Frames(session[s].profile)
  /\ LET r == session[s]
         p == r.profile
         res == OnMessage(r, f.data, f.isBinary)
         firstFinish == f \in FinishedFrames(p) /\ ~r.sawFinish
         firstFailed == /\ f \in FailedFrames(p)
                        /\ r.promise.state = "pending"
                        /\ r.failedWith = "no-frame"
     IN /\ session' =
             [session EXCEPT ![s] =
                [res.s EXCEPT
                   !.nFrames = @ + 1,
                   !.rxBin = IF f.isBinary THEN Append(@, f.data.bytes) ELSE @,
                   !.sawMalformed = @ \/ f \in MalformedFrames(p),
                   !.sawFinish = @ \/ f \in FinishedFrames(p),
                   !.nStarted = IF f \in StartedFrames(p) THEN @ + 1 ELSE @,
                   !.binAtFinish = IF firstFinish THEN r.rxBin ELSE @,
                   !.failedWith = IF firstFailed THEN BackendMessage(p, f) ELSE @]]
        /\ crashed' = res.threw
  /\ UNCHANGED <<tokenCache, now, call, net, req>>

\* 'error': a failed handshake or a socket error; the library moves to CLOSING
WsError(s, err) ==
  /\ ~crashed
  /\ session[s].readyState \in {"CONNECTING", "OPEN", "CLOSING"}
  /\ session[s].nErrors < MaxErrors
  /\ session' =
       [session EXCEPT ![s] =
          [OnError([@ EXCEPT !.readyState = "CLOSING"], err)
             EXCEPT !.nErrors = @ + 1]]
  /\ UNCHANGED <<crashed, tokenCache, now, call, net, req>>

\* 'close': the last event of a socket
Close(s, code, reason) ==
  /\ ~crashed
  /\ session[s].readyState \in {"OPEN", "CLOSING"}
  /\ session' =
       [session EXCEPT ![s] = OnClose([@ EXCEPT !.readyState = "CLOSED"], code, reason)]
  /\ UNCHANGED <<crashed, tokenCache, now, call, net, req>>

\* the deadline timer fires
Timeout(s) ==
  /\ ~crashed
  /\ session[s].timer = "armed"
  /\ session' = [session EXCEPT ![s] = OnTimeout([@ EXCEPT !.timer = "fired"])]
  /\ UNCHANGED <<crashed, tokenCache, now, call, net, req>>

SessionNext ==
  \/ \E s \in Sessions : Open(s)
  \/ \E s \in Sessions : \E f \in Frames(session[s].profile) : Message(s, f)
  \/ \E s \in Sessions : \E err \in TransportErrors : WsError(s, err)
  \/ \E s \in Sessions : \E code \in CloseCodes, reason \in CloseReasons :
        Close(s, code, reason)
  \/ \E s \in Sessions : Timeout(s)

---------------------------------------------------------------------------
\* server.js: getNlsToken and its cache

\* a slip: a token still served at the instant it expires
CacheValidInclusive(cache, t) == Truthy(cache.id) /\ t <= cache.expireTime

\* tokenCache.id && Date.now() < tokenCache.expireTime
CacheValid(cache, t) == Truthy(cache.id) /\ t < cache.expireTime

\* what the CreateToken endpoint can answer: a body with a Token (Id, and
\* ExpireTime in epoch seconds), a JSON body without one, a body that is not
\* JSON, or no answer at all (the request's 'error' event)
TokenIds == {"token-1", "token-2"}
ExpireTimes == {90, 120}
TokenResponses ==
  {[kind |-> "token", Id |-> i, ExpireTime |-> e] : i \in TokenIds, e \in ExpireTimes}
    \cup {[kind |-> k, Id |-> Undefined, ExpireTime |-> 0] :
            k \in {"no-token", "not-json", "error"}}

\* a slip: the cache written from any JSON body, before result.Token is
\* looked at
CacheAfterAnyBody(cache, resp) ==
  IF resp.kind \in {"token", "no-token"}
  THEN [id |-> resp.Id, expireTime |-> resp.ExpireTime * 1000 - 60000]
  ELSE cache

\* the cache after the response: written only from a body with a Token
CacheAfter(cache, resp) ==
  IF resp.kind = "token"
  THEN [id |-> resp.Id, expireTime |-> resp.ExpireTime * 1000 - 60000]
  ELSE cache

\* a caller that is not inside getNlsToken; prevToken is what its last call
\* returned, Undefined if there was none or it was rejected
IdleCall(done, prevToken) ==
  [state |-> "idle", token |-> Undefined, refreshes |-> 0, done |-> done,
   prevToken |-> prevToken, inWindow |-> FALSE, windowToken |-> Undefined,
   newToken |-> Undefined]

\* getNlsToken up to its return or its https request: the cached id when the
\* cache is valid, otherwise one request and a pending promise
GetNlsTokenStart(k, cache, t) ==
  IF CacheValid(cache, t)
  THEN [k EXCEPT !.state = "resolved", !.token = cache.id]
  ELSE [k EXCEPT !.state = "waiting", !.refreshes = @ + 1]

\* the 'end' and 'error' callbacks of the request: resolve with the new id,
\* or reject
GetNlsTokenEnd(k, resp) ==
  IF resp.kind = "token"
  THEN [k EXCEPT !.state = "resolved", !.token = resp.Id]
  ELSE [k EXCEPT !.state = "rejected"]

\* a call of getNlsToken begins.  inWindow and windowToken note whether the
\* token last issued by the endpoint is still more than 60 s from its
\* ExpireTime, and which token that is.
GetNlsToken(c) ==
  /\ ~crashed
  /\ call[c].state = "idle"
  /\ call[c].done < MaxCalls
  /\ LET k == GetNlsTokenStart(call[c], tokenCache, now)
         issued == net.issued
         inWindow == issued.kind = "token" /\ now < issued.ExpireTime * 1000 - 60000
     IN /\ call' = [call EXCEPT ![c] =
                      [k EXCEPT !.inWindow = inWindow, !.windowToken = issued.Id]]
        /\ net' = [net EXCEPT !.refresh = @ + (k.refreshes - call[c].refreshes)]
  /\ UNCHANGED <<session, crashed, tokenCache, now, req>>

\* the endpoint answers the request of call c, or the request fails
TokenResponse(c, resp) ==
  /\ ~crashed
  /\ call[c].state = "waiting"
  /\ resp \in TokenResponses
  /\ tokenCache' = CacheAfter(tokenCache, resp)
  /\ call' = [call EXCEPT ![c] = [GetNlsTokenEnd(@, resp) EXCEPT !.newToken = resp.Id]]
  /\ net' = [net EXCEPT !.issued = IF resp.kind = "token" THEN resp ELSE @]
  /\ UNCHANGED <<session, crashed, now, req>>

\* the caller takes the result and is ready to call again
TokenReturn(c) ==
  /\ ~crashed
  /\ c # "request"
  /\ call[c].state \in {"resolved", "rejected"}
  /\ call' = [call EXCEPT ![c] = IdleCall(@.done + 1, @.token)]
  /\ UNCHANGED <<session, crashed, tokenCache, now, net, req>>

\* 30 s pass
Tick ==
  /\ ~crashed
  /\ now < MaxTicks * 30000
  /\ now' = now + 30000
  /\ UNCHANGED <<session, crashed, tokenCache, call, net, req>>

---------------------------------------------------------------------------
\* Arguments of synthesizeSpeech

Texts == {JsString(2)}
Voices == {Undefined, "my-voice"}
Models == {Undefined, "cosyvoice-v3-plus"}
Formats == {Undefined, "wav"}
ApiKeys == {Undefined, "user-key"}
EnvApiKeys == {Undefined, "env-key"}

\* every session a direct call of synthesizeSpeech can start
NewSessions(id) ==
  {DashSynthesizeSpeech(id, t, v, m, f, k, e) :
     t \in Texts, v \in Voices, m \in Models, f \in Formats,
     k \in ApiKeys, e \in EnvApiKeys}
  \cup {NlsSynthesizeSpeech(id, t, v, f, "token-1") :
          t \in Texts, v \in Voices, f \in Formats}

\* the parts of the state the sessions do not touch
IdleToken == [id |-> Undefined, expireTime |-> 0]
NoResponse == [kind |-> "none", Id |-> Undefined, ExpireTime |-> 0]
IdleNet ==
  [refresh |-> 0, synth |-> 0, upload |-> 0, stored |-> "none", issued |-> NoResponse]
NoBody ==
  [text |-> JsUndefined, voice |-> Undefined, model |-> Undefined,
   format |-> Undefined, apikey |-> Undefined]
IdleReq ==
  [pc |-> "none", profile |-> "none", body |-> NoBody, status |-> 0,
   success |-> FALSE, error |-> NoError, uploaded |-> <<>>, contentType |-> Undefined]

---------------------------------------------------------------------------
\* POST /api/tts

\* the longest text each build accepts
MaxTextDash == 5000
MaxTextNls == 2000
MaxText(p) == IF p = "dash" THEN MaxTextDash ELSE MaxTextNls

\* a parameter's default in the destructuring of req.body
Default(x, d) == IF x = Undefined THEN d ELSE x

\* the two checks on text: the 400 error, or NoError when the text passes
Validate(p, text) ==
  IF Not(text) THEN [kind |-> "missing-text", code |-> 400, detail |-> ""]
  ELSE IF text.length > MaxText(p)
       THEN [kind |-> "text-too-long", code |-> 400, detail |-> ""]
       ELSE NoError

\* res.status(code).json({ success: false, error })
Respond(q, code, error) ==
  [q EXCEPT !.pc = "done", !.status = code, !.success = FALSE, !.error = error]

\* the Content-Type of the upload: part_000 knows wav, opus and mp3, server.js
\* tells wav from everything else
ContentType(p, format) ==
  IF format = "wav" THEN "audio/wav"
  ELSE IF p = "dash" /\ format = "opus" THEN "audio/ogg"
  ELSE "audio/mpeg"

\* the session the handler's call of synthesizeSpeech starts
RequestSession(q, token) ==
  IF q.profile = "dash"
  THEN DashSynthesizeSpeech("task-1", q.body.text,
                            Default(q.body.voice, "longanyang"),
                            Default(q.body.model, "cosyvoice-v3-flash"),
                            Default(q.body.format, "mp3"),
                            q.body.apikey, Undefined)
  ELSE NlsSynthesizeSpeech("task-1", q.body.text,
                           Default(q.body.voice, "longxiaochun"),
                           Default(q.body.format, "mp3"), token)

\* a slip: the handler starts its I/O before it looks at the text
PostTtsIoFirst ==
  /\ ~crashed
  /\ req.pc = "received"
  /\ LET k == GetNlsTokenStart(call["request"], tokenCache, now)
     IN IF req.profile = "dash"
        THEN /\ req' = [req EXCEPT !.pc = "awaitSynth"]
             /\ session' = [s \in {1} |-> RequestSession(req, Undefined)]
             /\ net' = [net EXCEPT !.synth = @ + 1]
             /\ UNCHANGED call
        ELSE /\ req' = [req EXCEPT !.pc = "awaitToken"]
             /\ call' = [call EXCEPT !["request"] = k]
             /\ net' = [net EXCEPT !.refresh = @ + k.refreshes]
             /\ UNCHANGED session
  /\ UNCHANGED <<crashed, tokenCache, now>>

\* the handler from its entry to its first await: the checks on text, then
\* synthesizeSpeech (part_000) or getNlsToken (server.js)
PostTts ==
  /\ ~crashed
  /\ req.pc = "received"
  /\ LET bad == Validate(req.profile, req.body.text)
         k == GetNlsTokenStart(call["request"], tokenCache, now)
     IN IF bad # NoError
        THEN /\ req' = Respond(req, 400, bad)
             /\ UNCHANGED <<session, call, net>>
        ELSE IF req.profile = "dash"
        THEN /\ req' = [req EXCEPT !.pc = "awaitSynth"]
             /\ session' = [s \in {1} |-> RequestSession(req, Undefined)]
             /\ net' = [net EXCEPT !.synth = @ + 1]
             /\ UNCHANGED call
        ELSE /\ req' = [req EXCEPT !.pc = "awaitToken"]
             /\ call' = [call EXCEPT !["request"] = k]
             /\ net' = [net EXCEPT !.refresh = @ + k.refreshes]
             /\ UNCHANGED session
  /\ UNCHANGED <<crashed, tokenCache, now>>

\* server.js: getNlsToken settled; on a token the handler calls
\* synthesizeSpeech, on a rejection it answers 500
AfterToken ==
  /\ ~crashed
  /\ req.pc = "awaitToken"
  /\ call["request"].state \in {"resolved", "rejected"}
  /\ IF call["request"].state = "resolved"
     THEN /\ req' = [req EXCEPT !.pc = "awaitSynth"]
          /\ session' = [s \in {1} |-> RequestSession(req, call["request"].token)]
          /\ net' = [net EXCEPT !.synth = @ + 1]
     ELSE /\ req' = Respond(req, 500, [kind |-> "token", code |-> 500, detail |-> ""])
          /\ UNCHANGED <<session, net>>
  /\ UNCHANGED <<crashed, tokenCache, now, call>>

\* a slip: the handler uploads whatever synthesizeSpeech left behind
AfterSynthUploadsAnyway ==
  /\ ~crashed
  /\ req.pc = "awaitSynth"
  /\ session[1].promise.state \in {"fulfilled", "rejected"}
  /\ req' = [req EXCEPT
               !.pc = "awaitUpload",
               !.uploaded = BufferConcat(session[1].audioChunks),
               !.contentType =
                  ContentType(req.profile, Default(req.body.format, "mp3"))]
  /\ net' = [net EXCEPT !.upload = @ + 1]
  /\ UNCHANGED <<session, crashed, tokenCache, now, call>>

\* synthesizeSpeech settled; the handler uploads the audio, or answers 500
\* with the error's message
AfterSynth ==
  /\ ~crashed
  /\ req.pc = "awaitSynth"
  /\ session[1].promise.state \in {"fulfilled", "rejected"}
  /\ IF session[1].promise.state = "fulfilled"
     THEN /\ req' = [req EXCEPT
                       !.pc = "awaitUpload",
                       !.uploaded = session[1].promise.value,
                       !.contentType =
                          ContentType(req.profile, Default(req.body.format, "mp3"))]
          /\ net' = [net EXCEPT !.upload = @ + 1]
     ELSE /\ req' = Respond(req, 500, session[1].promise.error)
          /\ UNCHANGED net
  /\ UNCHANGED <<session, crashed, tokenCache, now, call>>

\* the upload settled; the handler answers with the public URL, or 500
AfterUpload(ok) ==
  /\ ~crashed
  /\ req.pc = "awaitUpload"
  /\ req' = IF ok
            THEN [req EXCEPT !.pc = "done", !.status = 200, !.success = TRUE]
            ELSE Respond(req, 500, [kind |-> "upload", code |-> 500, detail |-> ""])
  /\ net' = [net EXCEPT !.stored = IF ok THEN "ok" ELSE "failed"]
  /\ UNCHANGED <<session, crashed, tokenCache, now, call>>

\* request bodies: text missing, empty, and at and over the bound
TextsFor(p) ==
  {JsUndefined, JsString(0), JsString(MaxText(p)), JsString(MaxText(p) + 1)}
Bodies(p) ==
  {[text |-> t, voice |-> Undefined, model |-> Undefined, format |-> Undefined,
    apikey |-> k] :
     t \in TextsFor(p), k \in IF p = "dash" THEN ApiKeys ELSE {Undefined}}

\* the answers of the CreateToken endpoint to the request's call
RequestTokenResponses ==
  {resp \in TokenResponses :
     resp.kind = "token" => resp.Id = "token-2" /\ resp.ExpireTime = 120}

\* one request received by either build; the token cache empty or holding a
\* token issued earlier
InitHttp ==
  /\ session = <<>>
  /\ crashed = FALSE
  /\ \E i \in {NoResponse, [kind |-> "token", Id |-> "token-1", ExpireTime |-> 90]} :
       /\ tokenCache = CacheAfter(IdleToken, i)
       /\ net = [IdleNet EXCEPT !.issued = i]
  /\ now = 0
  /\ call = [c \in {"request"} |-> IdleCall(0, Undefined)]
  /\ \E p \in {"dash", "nls"} : \E b \in Bodies(p) :
       req = [IdleReq EXCEPT !.pc = "received", !.profile = p, !.body = b]

NextHttp ==
  \/ PostTts
  \/ \E resp \in RequestTokenResponses : TokenResponse("request", resp)
  \/ AfterToken
  \/ AfterSynth
  \/ \E ok \in BOOLEAN : AfterUpload(ok)
  \/ SessionNext

SpecHttp == InitHttp /\ [][NextHttp]_vars

\* one session, just started by a call of synthesizeSpeech
Init ==
  /\ session \in [{1} -> NewSessions("task-1")]
  /\ crashed = FALSE
  /\ tokenCache = IdleToken
  /\ now = 0
  /\ call = <<>>
  /\ net = IdleNet
  /\ req = IdleReq

Next == SessionNext

Spec == Init /\ [][Next]_vars

\* the same program, the event loop running the callback of an armed deadline
\* timer once it is due
FairSpec == Spec /\ WF_vars(\E s \in Sessions : Timeout(s))

\* two calls of synthesizeSpeech in one process, their sockets and timers live
\* at the same time
PairSession(p, id) ==
  IF p = "dash"
  THEN DashSynthesizeSpeech(id, JsString(2), Undefined, Undefined, Undefined,
                            "user-key", Undefined)
  ELSE NlsSynthesizeSpeech(id, JsString(2), Undefined, Undefined, "token-1")

InitPair ==
  /\ \E p \in {"dash", "nls"} :
       session = [i \in {1, 2} |-> PairSession(p, IF i = 1 THEN "task-1" ELSE "task-2")]
  /\ crashed = FALSE
  /\ tokenCache = IdleToken
  /\ now = 0
  /\ call = <<>>
  /\ net = IdleNet
  /\ req = IdleReq

\* the frames the peer of session s sends: its own audio, and the two
\* terminal events
PairFrames(s) ==
  LET p == session[s].profile
  IN {[isBinary |-> TRUE,
       data |-> [bytes |-> IF s = 1 THEN <<1>> ELSE <<2, 3>>, text |-> NotJson]]}
       \cup FinishedFrames(p)
       \cup {TextFrame(FailedHeader(p, "quota exceeded"))}

\* the events of the two sessions, in any interleaving
NextPair ==
  \/ \E s \in Sessions : Open(s)
  \/ \E s \in Sessions : \E f \in PairFrames(s) :
        session[s].nFrames < MaxPairFrames /\ Message(s, f)
  \/ \E s \in Sessions : \E err \in TransportErrors : WsError(s, err)
  \/ \E s \in Sessions : Close(s, 1006, "")
  \/ \E s \in Sessions : Timeout(s)

SpecPair == InitPair /\ [][NextPair]_vars

\* one caller calling getNlsToken again and again as time passes
InitToken ==
  /\ session = <<>>
  /\ crashed = FALSE
  /\ tokenCache = IdleToken
  /\ now = 0
  /\ call = [c \in {"caller"} |-> IdleCall(0, Undefined)]
  /\ net = IdleNet
  /\ req = IdleReq

NextToken ==
  \/ \E c \in DOMAIN call : GetNlsToken(c)
  \/ \E c \in DOMAIN call : \E resp \in TokenResponses : TokenResponse(c, resp)
  \/ \E c \in DOMAIN call : TokenReturn(c)
  \/ Tick

SpecToken == InitToken /\ [][NextToken]_vars

\* two requests in flight at once, each calling getNlsToken
InitTokenPair ==
  /\ session = <<>>
  /\ crashed = FALSE
  /\ tokenCache = IdleToken
  /\ now = 0
  /\ call = [c \in {"a", "b"} |-> IdleCall(0, Undefined)]
  /\ net = IdleNet
  /\ req = IdleReq

SpecTokenPair == InitTokenPair /\ [][NextToken]_vars

---------------------------------------------------------------------------
\* Properties of a session

Pending(s) == session[s].promise.state = "pending"
Fulfilled(s) == session[s].promise.state = "fulfilled"
Rejected(s) == session[s].promise.state = "rejected"

\* C1: in both builds the handlers of one invocation call resolve or reject at
\* most once in total, whatever the order of the events.
C1_AtMostOneSettleCall == \A s \in Sessions : session[s].settleCalls <= 1

\* C2: every invocation eventually settles, whatever the peer does, given that
\* an armed deadline timer eventually fires.
C2_EventuallySettles == <>(\A s \in Sessions : ~Pending(s))

\* C3: a fulfilled invocation returns the bytes of the binary frames that
\* arrived before the finished event, concatenated in arrival order.
C3_ChunkOrder ==
  \A s \in Sessions :
    Fulfilled(s) => session[s].promise.value = BufferConcat(session[s].binAtFinish)

\* two different audio frames arrived, then the finished event fulfilled the promise
C3_Witness ==
  \E s \in Sessions :
    /\ Fulfilled(s)
    /\ Len(session[s].binAtFinish) = 2
    /\ session[s].binAtFinish[1] # session[s].binAtFinish[2]
    /\ Len(session[s].sent) = 3

\* C4: when the deadline timer fires on a pending invocation, the socket is
\* terminated and the invocation is rejected with the timeout error.
C4_Timeout ==
  [][\A s \in Sessions :
       (session[s].timer = "armed" /\ session'[s].timer = "fired" /\ Pending(s))
         => /\ session'[s].terminated
            /\ session'[s].readyState \in {"CLOSING", "CLOSED"}
            /\ session'[s].promise =
                 [state |-> "rejected", value |-> <<>>, error |-> TimeoutError]]_vars

\* the deadline fired while audio was streaming in
C4_Witness ==
  \E s \in Sessions :
    /\ session[s].promise.error = TimeoutError
    /\ session[s].terminated
    /\ session[s].timer = "fired"
    /\ Len(session[s].sent) = 3
    /\ Len(session[s].audioChunks) > 0

\* the state a failed event that reached a pending invocation must leave for
\* good: the socket closed, the promise rejected with message m, no audio
FailedOutcome(s, m) ==
  /\ session[s].closeCalled
  /\ session[s].promise =
       [state |-> "rejected", value |-> <<>>, error |-> TaskError(m)]

\* C5 as stated: a failed event on a pending invocation closes the socket
\* and rejects with the backend's message, or with the generic message when
\* the field is absent; the audio received so far is never returned.
C5_Original ==
  \A s \in Sessions :
    session[s].failedWith # "no-frame"
      => FailedOutcome(s, IF session[s].failedWith = Undefined
                          THEN GenericFailure ELSE session[s].failedWith)

\* C5 amended: the same, the generic message standing in when the field is
\* absent or empty.
C5_BackendFailure ==
  \A s \in Sessions :
    session[s].failedWith # "no-frame"
      => FailedOutcome(s, IF Truthy(session[s].failedWith)
                          THEN session[s].failedWith ELSE GenericFailure)

\* a failed event with a backend message arrived after two audio frames
C5_Witness ==
  \E s \in Sessions :
    /\ Rejected(s)
    /\ session[s].promise.error = TaskError("quota exceeded")
    /\ Len(session[s].rxBin) = 2

\* C6: in both builds a close event on a pending invocation rejects it at once
\* with a failure that carries the close code and the reason.
C6_UnexpectedClose ==
  [][\A s \in Sessions : \A code \in CloseCodes, reason \in CloseReasons :
       (Close(s, code, reason) /\ Pending(s))
         => /\ session'[s].promise.state = "rejected"
            /\ session'[s].promise.error.kind = "close"
            /\ session'[s].promise.error.code = code
            /\ reason # "" => session'[s].promise.error.detail = reason]_vars

\* C7: in both builds a malformed text frame is ignored: no exception leaves
\* the listener and the session is as it was, bar the count of frames.
C7_MalformedIgnored ==
  [][\A s \in Sessions : \A f \in MalformedFrames(session[s].profile) :
       Message(s, f)
         => /\ ~crashed'
            /\ session'[s] = [session[s] EXCEPT !.nFrames = @ + 1,
                                                !.sawMalformed = TRUE]]_vars

\* C10 as stated: the first message of every session, in both builds, is the
\* start message and carries payload.input = {}.
C10_Original ==
  \A s \in Sessions :
    session[s].sent # <<>>
      => LET m == session[s].sent[1]
         IN /\ "payload" \in DOMAIN m
            /\ "input" \in DOMAIN m.payload
            /\ m.payload.input = EmptyObject

\* the name of an outbound message: header.action or header.name
MessageName(m) ==
  IF "action" \in DOMAIN m.header THEN m.header.action ELSE m.header.name

\* C10 amended: the first message of every session is the start message
\* (run-task, StartSynthesis); the run-task message of the DashScope build
\* carries payload.input = {} whatever voice, model and format were given.
C10_StartPlaceholder ==
  \A s \in Sessions :
    session[s].sent # <<>>
      => LET m == session[s].sent[1]
         IN IF session[s].profile = "dash"
            THEN /\ MessageName(m) = "run-task"
                 /\ "input" \in DOMAIN m.payload
                 /\ m.payload.input = EmptyObject
            ELSE MessageName(m) = "StartSynthesis"

\* a DashScope session called with no voice, model or format sent its start
\* message and then the text
C10_Witness ==
  \E s \in Sessions :
    /\ session[s].profile = "dash"
    /\ session[s].voice = Undefined
    /\ session[s].model = Undefined
    /\ session[s].format = Undefined
    /\ Len(session[s].sent) = 3

---------------------------------------------------------------------------
\* Properties of the token cache

\* C9: a call made while the token last issued is more than 60 s from its
\* ExpireTime returns that token, the one the previous call returned, and
\* sends no request; a call made at or after that instant (or before any token
\* was issued) sends exactly one request and returns the token of its answer.
C9_CredentialCache ==
  \A c \in DOMAIN call :
    LET k == call[c]
    IN k.state # "idle"
         => IF k.inWindow
            THEN /\ k.state = "resolved"
                 /\ k.refreshes = 0
                 /\ k.token = k.windowToken
                 /\ k.prevToken # Undefined => k.token = k.prevToken
            ELSE /\ k.refreshes = 1
                 /\ k.state = "resolved" => k.token = k.newToken

\* a call was served from the cache, and at the instant that token expired the
\* next call fetched a different one
C9_Witness ==
  \E c \in DOMAIN call :
    /\ call[c].state = "resolved"
    /\ ~call[c].inWindow
    /\ call[c].done = 2
    /\ call[c].prevToken = "token-1"
    /\ call[c].token = "token-2"
    /\ now = 30000
    /\ net.refresh = 2

---------------------------------------------------------------------------
\* Properties of the request handler

\* the text of the request is missing, empty or over the build's bound
BadText ==
  \/ req.body.text.type = "undefined"
  \/ req.body.text.length = 0
  \/ req.body.text.length > (IF req.profile = "dash" THEN 5000 ELSE 2000)

\* C8: a request whose text is missing, empty or too long is answered 400 by
\* the handler's first step, and no token request, no socket and no upload is
\* ever made for it.
C8_ValidationBeforeIO ==
  (req.pc \notin {"none", "received"} /\ BadText)
    => /\ req.pc = "done"
       /\ req.status = 400
       /\ net.refresh = 0
       /\ net.upload = 0
       /\ session = <<>>

\* the DashScope build turned down a text of 5001 characters
C8_Witness ==
  /\ req.profile = "dash"
  /\ req.body.text = JsString(5001)
  /\ req.status = 400

---------------------------------------------------------------------------
\* Properties of the handshake

\* the three client messages of a session, in protocol order
Handshake(r) ==
  IF r.profile = "dash"
  THEN <<RunTaskMessage(r), ContinueTaskMessage(r), FinishTaskMessage(r)>>
  ELSE <<StartSynthesisMessage(r), RunSynthesisMessage(r), StopSynthesisMessage(r)>>

\* C11: the messages a session has sent are, in order, the start message, then
\* the continue message with the whole text, then the finish message; the
\* continue message is sent only once a started event has arrived, and the
\* finish message goes out in the same step, nothing in between.
C11_HandshakeOrder ==
  \A s \in Sessions :
    LET r == session[s]
    IN /\ Len(r.sent) <= 3
       /\ r.sent = SubSeq(Handshake(r), 1, Len(r.sent))
       /\ Len(r.sent) # 2
       /\ Len(r.sent) = 3 => r.nStarted >= 1

\* C12: the task state never moves backward: a session sends a message only
\* while it is unsettled, the start message first and the continue and finish
\* messages after it once, so neither is ever sent a second time and nothing
\* is sent once the session is completed or failed.
C12_ForwardOnly ==
  [][\A s \in Sessions :
       session'[s].sent # session[s].sent
         => /\ Pending(s)
            /\ Len(session[s].sent) <= 1
            /\ Len(session'[s].sent) <= 3]_vars

---------------------------------------------------------------------------
\* Properties of the deadline timer

\* the invocation settled, and not by the timeout
SettledOtherwise(s) ==
  ~Pending(s) /\ session[s].promise.error # TimeoutError

\* C13: once an invocation has settled by a finished or failed event, an
\* error or a close, its deadline timer is not armed: it was cleared (or never
\* set), it has not fired, and the timeout callback has not terminated the
\* socket.
C13_TimerCancelled ==
  \A s \in Sessions :
    SettledOtherwise(s)
      => /\ session[s].timer \in {"cleared", "none"}
         /\ ~session[s].terminated

\* a DashScope session in mid-handshake was rejected by an error event
C13_Witness ==
  \E s \in Sessions :
    /\ session[s].profile = "dash"
    /\ session[s].promise.error.kind = "ws-error"
    /\ Len(session[s].sent) = 3
    /\ session[s].timer = "cleared"

\* C14: once the deadline has fired and the invocation is rejected with the
\* timeout error, no later step adds a buffer to the session's audioChunks.
C14_NoChunksAfterTimeout ==
  [][\A s \in Sessions :
       (session[s].timer = "fired" /\ session[s].promise.error = TimeoutError)
         => session'[s].audioChunks = session[s].audioChunks]_vars

---------------------------------------------------------------------------
\* Properties of informational events

\* well-formed events whose name is not started, finished or failed
InformationalFrames(p) ==
  InfoFrames(p) \cup {TextFrame(EventHeader(p, "no-such-event"))}

\* C15: an event whose name is neither started, finished nor failed changes
\* nothing: promise, timer, socket, audioChunks and the messages sent are as
\* before, and no exception leaves the listener.
C15_InformationalNoOp ==
  [][\A s \in Sessions : \A f \in InformationalFrames(session[s].profile) :
       Message(s, f)
         => /\ ~crashed'
            /\ session'[s] =
                 [session[s] EXCEPT
                    !.nFrames = @ + 1,
                    !.sawMalformed = @ \/ f \in MalformedFrames(session[s].profile)]]_vars

\* two frames reached an open session and they were neither audio, started,
\* finished, failed nor malformed: two informational events, the session as
\* it was after its start message
C15_Witness ==
  \E s \in Sessions :
    /\ session[s].nFrames = 2
    /\ session[s].rxBin = <<>>
    /\ session[s].nStarted = 0
    /\ ~session[s].sawFinish
    /\ session[s].failedWith = "no-frame"
    /\ ~session[s].sawMalformed
    /\ session[s].readyState = "OPEN"
    /\ session[s].timer = "armed"
    /\ Pending(s)
    /\ Len(session[s].sent) = 1

---------------------------------------------------------------------------
\* Properties of the request handler's failure paths

\* getNlsToken rejected the request's call; synthesizeSpeech rejected
TokenFailed == call["request"].state = "rejected"
SynthFailed == session # <<>> /\ session[1].promise.state = "rejected"

\* C16: for a request that passed validation, synthesizeSpeech is called at
\* most once and the upload at most once, the upload only after
\* synthesizeSpeech resolved and with the buffer it resolved to; when
\* getNlsToken or synthesizeSpeech fails nothing is uploaded and the answer is
\* 500, success false, with that failure; success is answered only after
\* synthesizeSpeech resolved and the upload succeeded.
C16_FailurePropagation ==
  /\ net.synth <= 1
  /\ net.upload <= 1
  /\ net.upload = 1
       => /\ session # <<>>
          /\ session[1].promise.state = "fulfilled"
          /\ req.uploaded = session[1].promise.value
  /\ TokenFailed
       => /\ net.synth = 0
          /\ net.upload = 0
          /\ ~req.success
          /\ req.pc = "done" => req.status = 500 /\ req.error.kind = "token"
  /\ SynthFailed
       => /\ net.upload = 0
          /\ ~req.success
          /\ req.pc = "done" => req.status = 500 /\ req.error = session[1].promise.error
  /\ req.success
       => /\ req.status = 200
          /\ session # <<>>
          /\ session[1].promise.state = "fulfilled"
          /\ net.upload = 1
          /\ net.stored = "ok"

\* the NLS build answered 500 with the backend's message after a failed event
\* that followed some audio
C16_Witness ==
  /\ req.profile = "nls"
  /\ req.pc = "done"
  /\ req.status = 500
  /\ req.error = TaskError("quota exceeded")
  /\ net.synth = 1
  /\ net.refresh = 1
  /\ net.upload = 0
  /\ session # <<>>
  /\ session[1].audioChunks # <<>>

---------------------------------------------------------------------------
\* Properties of concurrent sessions

---------------------------------------------------------------------------
\* Properties of the terminal states

\* C18: a session is fulfilled only by a finished event that arrives after the
\* started event was received and the continue and finish messages were
\* sent; a finished event before that does not fulfil it.
C18_SuccessNeedsHandshake ==
  [][\A s \in Sessions :
       (Pending(s) /\ session'[s].promise.state = "fulfilled")
         => /\ session[s].nStarted >= 1
            /\ Len(session[s].sent) >= 3]_vars

\* C19: once an invocation has settled its connection is released: the client
\* called ws.close or ws.terminate, or the close event has been observed (or
\* no socket was ever made).
C19_ConnectionReleased ==
  \A s \in Sessions :
    ~Pending(s)
      => \/ session[s].closeCalled
         \/ session[s].terminated
         \/ session[s].readyState \in {"CLOSED", "NONE"}

---------------------------------------------------------------------------
\* Properties of the token cache under concurrent callers

\* what the cache holds after a response that carries a token
CachedPair(resp) ==
  [id |-> resp.Id, expireTime |-> resp.ExpireTime * 1000 - 60000]

\* C20: the cache changes only in the step that handles a refresh response
\* with a token, and then both id and expireTime are those of that response,
\* which is also what the caller gets; a refresh that fails (no answer, a body
\* that is not JSON, a body without Token) leaves the cache as it was and
\* rejects the caller.  This with two callers whose refreshes overlap and end
\* in either order.
C20_CacheUpdate ==
  [][/\ \A c \in DOMAIN call : \A resp \in TokenResponses :
          TokenResponse(c, resp)
            => IF resp.kind = "token"
               THEN /\ tokenCache' = CachedPair(resp)
                    /\ call'[c].state = "resolved"
                    /\ call'[c].token = resp.Id
               ELSE /\ tokenCache' = tokenCache
                    /\ call'[c].state = "rejected"
     /\ tokenCache' # tokenCache
          => \E c \in DOMAIN call :
               /\ call[c].state = "waiting"
               /\ call'[c].state = "resolved"
               /\ tokenCache'.id = call'[c].token]_vars

\* both callers missed the empty cache at the same instant and sent a request
\* each; the answer to b came last and is the pair the cache holds
C20_Witness ==
  /\ DOMAIN call = {"a", "b"}
  /\ now = 0
  /\ call["a"].done = 0 /\ call["a"].refreshes = 1 /\ call["a"].token = "token-2"
  /\ call["b"].done = 0 /\ call["b"].refreshes = 1 /\ call["b"].token = "token-1"
  /\ net.refresh = 2
  /\ tokenCache = [id |-> "token-1", expireTime |-> 30000]

====
